---- MODULE Spec2Model ----
(***************************************************************************)
(* A state-machine model of trainer.py, the training script of VoxSRC-20.  *)
(* The script is a straight-line program: start-up (dataset, loader, model,*)
(* optional checkpoint restore, log writer, criterion, optimizer) followed *)
(* by the epoch / batch loop and the per-epoch checkpoint save.  One action*)
(* models one statement (or one if/elif/else block) of the script; pc      *)
(* names the statement that runs next.                                     *)
(***************************************************************************)
EXTENDS Integers, Sequences, FiniteSets

(* ---------------------------------------------------------------- bounds *)
\* largest --num_epochs tried
MaxEpochs == 2
\* largest dataset length len(ds) tried
MaxDsLen == 2
\* largest --batch_size tried
MaxBatchSize == 2
\* speaker labels / predicted classes range over 0..MaxLabel
MaxLabel == 1
\* the value of --num_spkr given on the command line
NumSpkrArg == 2

(* ------------------------------------------------------------ the inputs *)
CriterionTypes == {"classification", "metriclearning", "other"}

Criteria == {"cosface", "psge2e", "prototypical", "other"}

\* The shape of the label tensor a batch of B samples carries: "flat" is (B,),
\* "col" is (B, 1).
TargetShapes == {"flat", "col"}

\* The options of the command line that the script reads.  model_path is TRUE
\* when a path is given (a non-empty string), FALSE when it is empty.
ArgSpace ==
    [criterion_type : CriterionTypes,
     criterion      : Criteria,
     num_spkr       : {NumSpkrArg},
     model_path     : BOOLEAN,
     save_model     : BOOLEAN,
     num_epochs     : 0..MaxEpochs,
     batch_size     : 1..MaxBatchSize]

\* What the script finds outside itself: whether the csv manifest and the
\* checkpoint at model_path can be read (with no model_path given there is no
\* checkpoint to read), the number of samples of the dataset and the shape of
\* the label tensor.
EnvSpace ==
    [csv_ok       : BOOLEAN,
     ckpt_ok      : BOOLEAN,
     ds_len       : 0..MaxDsLen,
     target_shape : TargetShapes]

VARIABLES
    argv,               \* the options as given on the command line
    env,                \* the file system and the dataset, see EnvSpace
    args,               \* the Namespace; kwargs = vars(args) is the same mapping
    pc,                 \* the statement that runs next
    err,                \* the exception that ended the run, "none" if none
    ds,                 \* <<>> or <<the dataset object>>
    dl,                 \* <<>> or <<the DataLoader>>
    feature_extractor,  \* <<>> or <<the kwargs transform() was built from>>
    model,              \* <<>> or <<the kwargs UniversalSRModel was built from>>
    reads,              \* the checkpoint reads so far: what each was loaded into
    logOpen,            \* whether the SummaryWriter exists
    log,                \* the scalars added to the SummaryWriter, in order
    criterion,          \* <<>> or <<the criterion object>>
    optimizer,          \* <<>> or <<the optimizer: its number of steps so far>>
    counter,            \* the step counter
    epoch,              \* values drawn from range(num_epochs) so far: e + 1
    b,                  \* batches drawn from dl in this epoch so far
    bsz,                \* size of the batch in hand, y.size(0)
    x,                  \* where the input tensor of the batch in hand is
    target,             \* where the label tensor of the batch in hand is
    y,                  \* whether the forward pass of the batch in hand ran
    loss,               \* 0 - 1 while the name loss is unbound, else the counter
                        \* value of the batch the loss was computed for
    grads,              \* "none", "zero" or "fresh": the parameters' .grad
    steps,              \* the statements executed on the batch in hand, in order
    files               \* the files written under models/

vars == <<argv, env, args, pc, err, ds, dl, feature_extractor, model, reads,
          logOpen, log, criterion, optimizer, counter, epoch, b, bsz, x,
          target, y, loss, grads, steps, files>>

setupVars == <<ds, dl, feature_extractor, model, reads, logOpen, criterion,
               optimizer>>

batchVars == <<bsz, x, target, y, loss, grads, steps>>

Unbound == 0 - 1

(* ------------------------------------------------------ pure computations *)
\* NumBatches under drop_last=True: the incomplete last batch is dropped.
NumBatches_DropLast(n, bs) == n \div bs

\* DataLoader(ds, batch_size, shuffle=True) with drop_last at its default
\* (False): ceil(n / bs) batches per epoch.
NumBatches(n, bs) == (n + bs - 1) \div bs

\* The size of the k-th batch (k = 1, 2, ...) of an epoch: every batch is full
\* except possibly the last.
BatchLen(n, bs, k) == IF k * bs <= n THEN bs ELSE n - (k - 1) * bs

\* (preds == target).sum() where preds = scores.topk(1, dim=1)[1] has shape
\* (B, 1).  Against a (B,) target the comparison broadcasts to a (B, B) matrix
\* whose (i, j) entry is preds[i] = target[j]; against a (B, 1) target it is
\* element-wise.
MatchCount(preds, tgt, shape) ==
    IF shape = "flat"
    THEN Cardinality({p \in (DOMAIN preds) \X (DOMAIN tgt) :
                          preds[p[1]] = tgt[p[2]]})
    ELSE Cardinality({i \in DOMAIN preds : preds[i] = tgt[i]})

\* f'{n:02d}': the decimal digits of n, zero-padded to at least two digits.
RECURSIVE Digits(_)
Digits(n) == IF n < 10 THEN <<n>> ELSE Append(Digits(n \div 10), n % 10)

Fmt02d(n) == IF n < 10 THEN <<0, n>> ELSE Digits(n)

\* CkptName with the 0-based loop variable e in place of e + 1.
CkptName_ZeroBased(kind, e) == [kind |-> kind, digits |-> Fmt02d(e)]

\* f'models/{kind}_{e+1:02d}.pt' as the kind and the digits between '_' and
\* '.pt'.
CkptName(kind, e) == [kind |-> kind, digits |-> Fmt02d(e + 1)]

\* counter += 2
CounterAfterBatch_Twice(c) == c + 2

\* counter += 1
CounterAfterBatch(c) == c + 1

(* ------------------------------------------------------------------ Init *)
\* The state right after args = parser.parse_args().  Names the script binds
\* later (counter at line 91, the loop variables, the batch tensors) start at a
\* neutral value that nothing reads before the binding statement runs.
Init ==
    /\ argv \in ArgSpace
    /\ env \in {en \in EnvSpace : en.ckpt_ok => argv.model_path}
    /\ args = argv
    /\ pc = "data_loader"
    /\ err = "none"
    /\ ds = <<>>
    /\ dl = <<>>
    /\ feature_extractor = <<>>
    /\ model = <<>>
    /\ reads = <<>>
    /\ logOpen = FALSE
    /\ log = <<>>
    /\ criterion = <<>>
    /\ optimizer = <<>>
    /\ counter = 0
    /\ epoch = 0
    /\ b = 0
    /\ bsz = 0
    /\ x = "none"
    /\ target = "none"
    /\ y = FALSE
    /\ loss = Unbound
    /\ grads = "none"
    /\ steps = <<>>
    /\ files = {}

\* An uncaught exception ends the run.
Raise(exc) == pc' = "error" /\ err' = exc

Goto(l) == pc' = l /\ err' = err

(* --------------------------------------------------------------- start-up *)
\* args.num_spkr = len(ds) + 1
NumSpkrFromDataset_OffByOne(a, n) == [a EXCEPT !.num_spkr = n + 1]

\* args.num_spkr = len(ds)
NumSpkrFromDataset(a, n) == [a EXCEPT !.num_spkr = n]

\* DatasetFor without its else branch: an unknown criterion_type falls through
\* to the metric-learning dataset.
DatasetFor_NoElse(ct) ==
    IF ct = "classification" THEN "ClassificationVCDS"
    ELSE "MetricLearningVCDS"

\* The class the if/elif/else of lines 29-46 instantiates under criterion_type
\* ct; "ValueError" stands for the else branch, which raises.
DatasetFor(ct) ==
    IF ct = "classification" THEN "ClassificationVCDS"
    ELSE IF ct = "metriclearning" THEN "MetricLearningVCDS"
    ELSE "ValueError"

\* lines 29-46: the dataset by criterion_type.  Building a dataset reads the
\* csv manifest, which fails when the manifest cannot be read.
SelectDataset ==
    /\ pc = "data_loader"
    /\ LET kind == DatasetFor(args.criterion_type) IN
       IF kind = "ValueError"
       THEN /\ Raise("ValueError")
            /\ UNCHANGED <<ds, args>>
       ELSE IF ~env.csv_ok
       THEN /\ Raise("IOError")
            /\ UNCHANGED <<ds, args>>
       ELSE /\ ds' = <<[kind |-> kind, len |-> env.ds_len]>>
            /\ args' = IF kind = "ClassificationVCDS"
                       THEN NumSpkrFromDataset(args, env.ds_len)
                       ELSE args
            /\ Goto("dl")
    /\ UNCHANGED <<argv, env, dl, feature_extractor, model, reads, logOpen, log,
                   criterion, optimizer, counter, epoch, b, batchVars, files>>

\* lines 47-53: the DataLoader and the feature extractor, built from kwargs
BuildLoader ==
    /\ pc = "dl"
    /\ dl' = <<[len |-> ds[1].len, batch_size |-> args.batch_size]>>
    /\ feature_extractor' = <<args>>
    /\ Goto("model")
    /\ UNCHANGED <<argv, env, args, ds, model, reads, logOpen, log, criterion,
                   optimizer, counter, epoch, b, batchVars, files>>

\* lines 56-57: the model, built from kwargs
BuildModel ==
    /\ pc = "model"
    /\ model' = <<args>>
    /\ Goto("checkpoint")
    /\ UNCHANGED <<argv, env, args, ds, dl, feature_extractor, reads, logOpen,
                   log, criterion, optimizer, counter, epoch, b, batchVars,
                   files>>

\* The resume path restoring the optimizer from the checkpoint as well.
CheckpointLoaded_WithOptimizer(r) == r \o <<"model", "optimizer">>

\* model.load_state_dict(torch.load(args.model_path, map_location=device)):
\* one read of the checkpoint file, into the model.
CheckpointLoaded(r) == Append(r, "model")

\* if args.model_path:
ResumeRequested(a) == a.model_path

\* lines 60-66: continue from checkpoint
LoadCheckpoint ==
    /\ pc = "checkpoint"
    /\ IF ResumeRequested(args)
       THEN IF env.ckpt_ok
            THEN reads' = CheckpointLoaded(reads) /\ Goto("log")
            ELSE Raise("IOError") /\ UNCHANGED reads
       ELSE Goto("log") /\ UNCHANGED reads
    /\ UNCHANGED <<argv, env, args, ds, dl, feature_extractor, model, logOpen,
                   log, criterion, optimizer, counter, epoch, b, batchVars,
                   files>>

\* line 69: the SummaryWriter
OpenLog ==
    /\ pc = "log"
    /\ logOpen' = TRUE
    /\ Goto("criterion")
    /\ UNCHANGED <<argv, env, args, ds, dl, feature_extractor, model, reads,
                   log, criterion, optimizer, counter, epoch, b, batchVars,
                   files>>

\* lines 72-80: the criterion by name
SelectCriterion ==
    /\ pc = "criterion"
    /\ IF args.criterion \in {"cosface", "psge2e", "prototypical"}
       THEN /\ criterion' = <<[name |-> args.criterion,
                               num_spkr |-> args.num_spkr]>>
            /\ Goto("optimizer")
       ELSE /\ Raise("ValueError")
            /\ UNCHANGED criterion
    /\ UNCHANGED <<argv, env, args, ds, dl, feature_extractor, model, reads,
                   logOpen, log, optimizer, counter, epoch, b, batchVars,
                   files>>

\* lines 83-88: Adam over the model's and the criterion's parameters
BuildOptimizer ==
    /\ pc = "optimizer"
    /\ optimizer' = <<0>>
    /\ Goto("counter")
    /\ UNCHANGED <<argv, env, args, ds, dl, feature_extractor, model, reads,
                   logOpen, log, criterion, counter, epoch, b, batchVars,
                   files>>

\* line 91: counter = 0
InitCounter ==
    /\ pc = "counter"
    /\ counter' = 0
    /\ Goto("epoch")
    /\ UNCHANGED <<argv, env, args, setupVars, log, epoch, b, batchVars, files>>

(* ---------------------------------------------------------- training loop *)
\* line 92: for e in range(args.num_epochs)
EpochHead ==
    /\ pc = "epoch"
    /\ IF epoch < args.num_epochs
       THEN epoch' = epoch + 1 /\ b' = 0 /\ Goto("batch")
       ELSE UNCHANGED <<epoch, b>> /\ Goto("done")
    /\ UNCHANGED <<argv, env, args, setupVars, log, counter, batchVars, files>>

\* line 94: for x, target in tqdm(dl): the next batch, or the end of the epoch
NextBatch ==
    /\ pc = "batch"
    /\ IF b < NumBatches(dl[1].len, dl[1].batch_size)
       THEN /\ b' = b + 1
            /\ bsz' = BatchLen(dl[1].len, dl[1].batch_size, b + 1)
            /\ x' = "host"
            /\ target' = "host"
            /\ y' = FALSE
            /\ steps' = <<>>
            /\ Goto("x_to")
       ELSE /\ UNCHANGED <<b, bsz, x, target, y, steps>>
            /\ Goto("save")
    /\ UNCHANGED <<argv, env, args, setupVars, log, counter, epoch, loss, grads,
                   files>>

\* line 95: x = x.to(device)
XToDevice ==
    /\ pc = "x_to"
    /\ x' = "device"
    /\ steps' = Append(steps, "x.to")
    /\ Goto("feature_extractor")
    /\ UNCHANGED <<argv, env, args, setupVars, log, counter, epoch, b, bsz,
                   target, y, loss, grads, files>>

\* line 96: x = feature_extractor(x)
ExtractFeatures ==
    /\ pc = "feature_extractor"
    /\ x' = "features"
    /\ steps' = Append(steps, "feature_extractor")
    /\ Goto("target_to")
    /\ UNCHANGED <<argv, env, args, setupVars, log, counter, epoch, b, bsz,
                   target, y, loss, grads, files>>

\* line 97: target = target.to(device)
TargetToDevice ==
    /\ pc = "target_to"
    /\ target' = "device"
    /\ steps' = Append(steps, "target.to")
    /\ Goto("forward")
    /\ UNCHANGED <<argv, env, args, setupVars, log, counter, epoch, b, bsz, x,
                   y, loss, grads, files>>

\* line 100: y = model(x)
Forward ==
    /\ pc = "forward"
    /\ y' = TRUE
    /\ steps' = Append(steps, "model")
    /\ Goto("branch")
    /\ UNCHANGED <<argv, env, args, setupVars, log, counter, epoch, b, bsz, x,
                   target, loss, grads, files>>

Labels == 0..MaxLabel

\* log.add_scalar(tag, value, step); value is the fraction num / den (the loss
\* value itself is not modelled and is entered as 0 / 1).
Scalar(tag, num, den, step) ==
    [tag |-> tag, num |-> num, den |-> den, step |-> step]

\* The name loss after the if/elif of lines 102-113, under criterion_type ct:
\* the classification branch binds it to the loss of the batch in hand (counter
\* value c), the metriclearning branch is "pass" and leaves the name as it was.
LossAfterBranch(ct, old, c) == IF ct = "classification" THEN c ELSE old

\* lines 102-113: the loss (and the accuracy) by criterion_type
CriterionBranch ==
    /\ pc = "branch"
    /\ loss' = LossAfterBranch(args.criterion_type, loss, counter)
    /\ IF args.criterion_type = "classification"
       THEN \E preds \in [1..bsz -> Labels], tgt \in [1..bsz -> Labels] :
              /\ log' = Append(log, Scalar("acc",
                                  MatchCount(preds, tgt, env.target_shape),
                                  bsz, counter))
              /\ steps' = steps \o <<"criterion", "acc">>
       ELSE UNCHANGED <<log, steps>>
    /\ Goto("zero_grad")
    /\ UNCHANGED <<argv, env, args, setupVars, counter, epoch, b, bsz, x, target,
                   y, grads, files>>

\* line 116: optimizer.zero_grad()
ZeroGrad ==
    /\ pc = "zero_grad"
    /\ grads' = "zero"
    /\ steps' = Append(steps, "zero_grad")
    /\ Goto("backward")
    /\ UNCHANGED <<argv, env, args, setupVars, log, counter, epoch, b, bsz, x,
                   target, y, loss, files>>

\* line 117: loss.backward(); NameError while the name loss is unbound
Backward ==
    /\ pc = "backward"
    /\ IF loss = Unbound
       THEN Raise("NameError") /\ UNCHANGED <<grads, steps>>
       ELSE /\ grads' = "fresh"
            /\ steps' = Append(steps, "backward")
            /\ Goto("step")
    /\ UNCHANGED <<argv, env, args, setupVars, log, counter, epoch, b, bsz, x,
                   target, y, loss, files>>

\* line 118: optimizer.step()
OptimizerStep ==
    /\ pc = "step"
    /\ optimizer' = <<optimizer[1] + 1>>
    /\ steps' = Append(steps, "step")
    /\ Goto("log_loss")
    /\ UNCHANGED <<argv, env, args, ds, dl, feature_extractor, model, reads,
                   logOpen, criterion, log, counter, epoch, b, bsz, x, target, y,
                   loss, grads, files>>

\* line 121: log.add_scalar('loss', loss.item(), counter)
LogLoss ==
    /\ pc = "log_loss"
    /\ log' = Append(log, Scalar("loss", 0, 1, counter))
    /\ steps' = Append(steps, "loss")
    /\ Goto("counter_incr")
    /\ UNCHANGED <<argv, env, args, setupVars, counter, epoch, b, bsz, x, target,
                   y, loss, grads, files>>

\* line 122: counter += 1, then back to the head of the batch loop
IncrCounter ==
    /\ pc = "counter_incr"
    /\ counter' = CounterAfterBatch(counter)
    /\ steps' = Append(steps, "counter")
    /\ Goto("batch")
    /\ UNCHANGED <<argv, env, args, setupVars, log, epoch, b, bsz, x, target, y,
                   loss, grads, files>>

(* ------------------------------------------------------------ checkpoints *)
\* if args.save_model:
SaveRequested(a) == a.save_model

\* line 125: the save_model flag at the end of the epoch
SaveCheck ==
    /\ pc = "save"
    /\ IF SaveRequested(args) THEN Goto("save_model") ELSE Goto("epoch")
    /\ UNCHANGED <<argv, env, args, setupVars, log, counter, epoch, b, batchVars,
                   files>>

\* lines 126-129: torch.save(model.state_dict(), f'models/model_{e+1:02d}.pt')
SaveModel ==
    /\ pc = "save_model"
    /\ files' = files \cup {CkptName("model", epoch - 1)}
    /\ Goto("save_crit")
    /\ UNCHANGED <<argv, env, args, setupVars, log, counter, epoch, b, batchVars>>

\* lines 130-133: torch.save(criterion.state_dict(), f'models/crit_{e+1:02d}.pt')
SaveCrit ==
    /\ pc = "save_crit"
    /\ files' = files \cup {CkptName("crit", epoch - 1)}
    /\ Goto("save_optim")
    /\ UNCHANGED <<argv, env, args, setupVars, log, counter, epoch, b, batchVars>>

\* lines 134-137: torch.save(optimizer.state_dict(), f'models/optim_{e+1:02d}.pt')
SaveOptim ==
    /\ pc = "save_optim"
    /\ files' = files \cup {CkptName("optim", epoch - 1)}
    /\ Goto("epoch")
    /\ UNCHANGED <<argv, env, args, setupVars, log, counter, epoch, b, batchVars>>

(* ------------------------------------------------------- the specification *)
Next ==
    \/ SelectDataset
    \/ BuildLoader
    \/ BuildModel
    \/ LoadCheckpoint
    \/ OpenLog
    \/ SelectCriterion
    \/ BuildOptimizer
    \/ InitCounter
    \/ EpochHead
    \/ NextBatch
    \/ XToDevice
    \/ ExtractFeatures
    \/ TargetToDevice
    \/ Forward
    \/ CriterionBranch
    \/ ZeroGrad
    \/ Backward
    \/ OptimizerStep
    \/ LogLoss
    \/ IncrCounter
    \/ SaveCheck
    \/ SaveModel
    \/ SaveCrit
    \/ SaveOptim

Spec == Init /\ [][Next]_vars

(* ------------------------------------------------------------- the claims *)
ValidTypes == {"classification", "metriclearning"}

ValidCriteria == {"cosface", "psge2e", "prototypical"}

\* The statements of the body of the batch loop, lines 95-122.
BodyPcs == {"x_to", "feature_extractor", "target_to", "forward", "branch",
            "zero_grad", "backward", "step", "log_loss", "counter_incr"}

\* The statements of the checkpoint save, lines 126-137.
SavePcs == {"save_model", "save_crit", "save_optim"}

\* The run is inside the body of the batch loop (or died there).
InBody == pc \in BodyPcs \/ (pc = "error" /\ err = "NameError")

\* Nothing of the training has happened.
NoTraining ==
    /\ optimizer = <<>>
    /\ counter = 0 /\ epoch = 0 /\ b = 0 /\ steps = <<>>
    /\ grads = "none"
    /\ log = <<>>
    /\ files = {}

\* C1: a criterion_type other than 'classification' and 'metriclearning' ends
\* start-up in a ValueError at the very first statement, whatever the other
\* options: no dataset is built, no batch is processed, no optimizer step is
\* taken, nothing is logged and no checkpoint file is written.
C1_BadTypeRaisesFirst ==
    argv.criterion_type \notin ValidTypes =>
        /\ pc \in {"data_loader", "error"}
        /\ pc = "data_loader" => ENABLED SelectDataset
        /\ pc = "error" => err = "ValueError"
        /\ ds = <<>> /\ reads = <<>> /\ ~logOpen
        /\ NoTraining

C1_Witness ==
    /\ argv.criterion_type \notin ValidTypes
    /\ argv.criterion \in ValidCriteria
    /\ pc = "error" /\ err = "ValueError"

\* C2 (the claim as stated): a criterion other than 'cosface', 'psge2e' and
\* 'prototypical' ends start-up in a ValueError: the run never ends in another
\* exception, and no optimizer, loop iteration, metric or checkpoint exists.
C2_BadCriterionRaisesValueError ==
    argv.criterion \notin ValidCriteria =>
        /\ pc = "error" => err = "ValueError"
        /\ NoTraining

\* C3 (the claim as stated): in the metric-learning branch with a valid
\* criterion the loss of the batch in hand is computed before the gradients
\* are zeroed, so the batch goes on through backpropagation, optimizer step and
\* loss logging, and the run never dies of an unbound loss.
C3_MetricLossComputed ==
    (argv.criterion_type = "metriclearning" /\ argv.criterion \in ValidCriteria) =>
        /\ err # "NameError"
        /\ pc \in {"zero_grad", "backward", "step", "log_loss", "counter_incr"}
             => loss = counter

\* C4 (the claim as stated): every accuracy value logged lies in [0, 1]: the
\* count of matching predictions is between 0 and the batch size.
C4_AccuracyInUnitInterval ==
    \A i \in DOMAIN log :
        log[i].tag = "acc" => (0 <= log[i].num /\ log[i].num <= log[i].den)

\* The steps of the entries of log under tag, in the order they were added.
StepsOf(tag) ==
    LET sel == SelectSeq(log, LAMBDA r : r.tag = tag)
    IN  [i \in DOMAIN sel |-> sel[i].step]

\* Batches per epoch, counted without NumBatches: the least k with
\* k * batch_size >= len(ds).
BatchesPerEpoch ==
    CHOOSE k \in 0..env.ds_len :
        /\ k * argv.batch_size >= env.ds_len
        /\ (k = 0 \/ (k - 1) * argv.batch_size < env.ds_len)

\* The batches completed so far, over all epochs: the batches of the epochs
\* before this one, and the batches drawn in this one but for the one in hand.
Completed ==
    IF epoch = 0 THEN 0
    ELSE (epoch - 1) * BatchesPerEpoch + (IF InBody THEN b - 1 ELSE b)

\* C5: the counter starts at 0 and equals the number of batches completed so
\* far over all epochs (it is never reset or decremented between epochs); the
\* loss entries logged so far carry the steps 0, 1, 2, ... in this order, one
\* per completed batch (plus the entry of the batch in hand between its loss
\* log and its counter increment), and the optimizer has stepped as often.
C5_CounterCountsBatches ==
    /\ counter = Completed
    /\ LET n == IF pc = "counter_incr" THEN counter + 1 ELSE counter
       IN  /\ StepsOf("loss") = [i \in 1..n |-> i - 1]
           /\ optimizer # <<>> =>
                optimizer[1] = (IF pc = "log_loss" THEN counter + 1 ELSE n)

C5_Witness ==
    /\ pc = "batch" /\ epoch = 2 /\ b = 1
    /\ counter = 3
    /\ StepsOf("loss") = <<0, 1, 2>>

\* The number a sequence of decimal digits denotes.
RECURSIVE DigitsValue(_)
DigitsValue(d) ==
    IF d = <<>> THEN 0
    ELSE 10 * DigitsValue(SubSeq(d, 1, Len(d) - 1)) + d[Len(d)]

CkptKinds == {"model", "crit", "optim"}

\* The kinds already saved at the end of the epoch in hand.
SavedKinds ==
    IF pc = "save_crit" THEN {"model"}
    ELSE IF pc = "save_optim" THEN {"model", "crit"}
    ELSE {}

\* The epochs (1-based) whose three checkpoint files are due: all the epochs
\* started, but for the one still in progress.
EpochsSaved ==
    IF pc \in {"batch", "save"} \cup SavePcs \/ InBody THEN epoch - 1 ELSE epoch

\* C6 (the claim as stated): with the flag off no file is written; with it on
\* the files are exactly model_<k>.pt, crit_<k>.pt and optim_<k>.pt for the
\* epochs k that have ended, <k> being the epoch index k written out in
\* decimal (model_1.pt, model_2.pt, ...).
C6_PlainIndexNames ==
    /\ ~argv.save_model => files = {}
    /\ argv.save_model =>
         files = {[kind |-> kd, digits |-> Digits(k)] :
                      kd \in CkptKinds, k \in 1..EpochsSaved}
                 \cup {[kind |-> kd, digits |-> Digits(epoch)] : kd \in SavedKinds}

\* C6 (amended): with the flag off no file is ever written; with it on, the
\* files are exactly three per ended epoch k, of the kinds model, crit and
\* optim, whose index is k (1-based) written in decimal and zero-padded to two
\* digits (model_01.pt, ...); they are written after the batches of epoch k
\* and before any batch of epoch k + 1, and no file of epoch k exists while
\* epoch k is in progress.
C6_CheckpointsPerEpoch ==
    /\ ~argv.save_model => files = {}
    /\ argv.save_model =>
         /\ \A f \in files :
              /\ f.kind \in CkptKinds
              /\ Len(f.digits) = 2
              /\ DigitsValue(f.digits) \in 1..epoch
              /\ DigitsValue(f.digits) = epoch =>
                   (f.kind \in SavedKinds \/ EpochsSaved = epoch)
         /\ \A k \in 1..EpochsSaved : \A kd \in CkptKinds :
              \E f \in files : f.kind = kd /\ DigitsValue(f.digits) = k
         /\ Cardinality(files) = 3 * EpochsSaved + Cardinality(SavedKinds)

C6_Witness ==
    /\ argv.save_model
    /\ pc = "done" /\ epoch = 2
    /\ Cardinality(files) = 6
    /\ [kind |-> "optim", digits |-> <<0, 2>>] \in files

\* C7 (the claim as stated): no field of args / kwargs is assigned after
\* parsing, so args and what the feature extractor and the model were built
\* from are the values of the command line.
C7_ArgsNeverAssigned ==
    /\ args = argv
    /\ feature_extractor # <<>> => feature_extractor[1] = argv
    /\ model # <<>> => model[1] = argv

\* C7 (amended): after parsing, the only field of args ever assigned is
\* num_spkr, and only in the classification branch, where it is len(ds) from
\* the moment the dataset is built; kwargs being the same mapping, the feature
\* extractor and the model are built from args with that value.  Under
\* metriclearning no field is assigned.
C7_OnlyNumSpkrAssigned ==
    /\ args = [argv EXCEPT !.num_spkr =
                   IF argv.criterion_type = "classification" /\ ds # <<>>
                   THEN ds[1].len ELSE argv.num_spkr]
    /\ feature_extractor # <<>> => feature_extractor[1] = args
    /\ model # <<>> => model[1] = args
    /\ argv.criterion_type # "classification" => args = argv

C7_Witness ==
    /\ argv.criterion_type = "classification"
    /\ model # <<>>
    /\ model[1].num_spkr # argv.num_spkr
    /\ pc = "done"

\* In the batch in hand, statement later ran only after statement earlier.
Precedes(earlier, later) ==
    \A j \in DOMAIN steps :
        steps[j] = later => \E i \in 1..(j - 1) : steps[i] = earlier

\* C8 (the claim as stated): in every batch the input is moved to the device
\* before feature extraction, then come the forward pass, the loss by the
\* criterion (on a target moved to the device), zero_grad, backward, the
\* optimizer step and the loss log; the counter is incremented after the loss
\* (and, for classification, the accuracy) was logged, both under one counter
\* value.
C8_BatchOrder ==
    /\ Precedes("x.to", "feature_extractor")
    /\ Precedes("feature_extractor", "model")
    /\ Precedes("model", "criterion")
    /\ Precedes("target.to", "criterion")
    /\ Precedes("criterion", "zero_grad")
    /\ Precedes("zero_grad", "backward")
    /\ Precedes("backward", "step")
    /\ Precedes("step", "loss")
    /\ Precedes("loss", "counter")
    /\ argv.criterion_type = "classification" =>
         /\ Precedes("acc", "counter")
         /\ pc = "counter_incr" =>
              /\ log[Len(log)] = [tag |-> "loss", num |-> 0, den |-> 1,
                                  step |-> counter]
              /\ \E i \in DOMAIN log :
                     log[i].tag = "acc" /\ log[i].step = counter

\* A classification run whose criterion is valid and whose files can be read.
ValidClassificationRun ==
    /\ argv.criterion_type = "classification"
    /\ argv.criterion \in ValidCriteria
    /\ env.csv_ok
    /\ argv.model_path => env.ckpt_ok

\* The samples drawn from dl in this epoch so far.
RECURSIVE SamplesDrawn(_)
SamplesDrawn(k) ==
    IF k = 0 THEN 0
    ELSE SamplesDrawn(k - 1) + BatchLen(env.ds_len, argv.batch_size, k)

\* How far each statement is from the end of its loop iteration.
RankSeq ==
    <<"epoch", "save_optim", "save_crit", "save_model", "save", "batch",
      "counter_incr", "log_loss", "step", "backward", "zero_grad", "branch",
      "forward", "target_to", "feature_extractor", "x_to", "counter",
      "optimizer", "criterion", "log", "checkpoint", "model", "dl",
      "data_loader">>

PcRank(p) ==
    IF \E i \in DOMAIN RankSeq : RankSeq[i] = p
    THEN CHOOSE i \in DOMAIN RankSeq : RankSeq[i] = p
    ELSE 0

\* A bound on the statements the run has still to execute.
Remaining ==
    LET perBatch == Len(RankSeq) + 1
        perEpoch == (BatchesPerEpoch + 1) * perBatch
        batchesLeft == IF epoch = 0 \/ pc \in {"epoch", "done", "error"} \cup SavePcs
                                    \/ pc = "save"
                       THEN 0 ELSE BatchesPerEpoch - b
    IN  (argv.num_epochs - epoch) * perEpoch + batchesLeft * perBatch + PcRank(pc)

\* C9: a classification run with a valid criterion and readable files never
\* fails and terminates (every statement lowers a bound on the statements
\* left); each epoch draws every sample of the dataset once, in
\* ceil(len(ds) / batch_size) batches; at the end num_epochs epochs have run
\* and the counter is num_epochs times the batches per epoch; with
\* num_epochs = 0 nothing is logged and no checkpoint is written.
C9_RunLength ==
    /\ [](ValidClassificationRun =>
            /\ pc # "error"
            /\ Remaining >= 0
            /\ pc # "done" => ENABLED Next
            /\ pc = "save" =>
                 b = BatchesPerEpoch /\ SamplesDrawn(b) = env.ds_len
            /\ pc \in BodyPcs => bsz >= 1 /\ SamplesDrawn(b) <= env.ds_len
            /\ pc = "done" =>
                 /\ epoch = argv.num_epochs
                 /\ counter = argv.num_epochs * BatchesPerEpoch
                 /\ Len(StepsOf("acc")) = counter
                 /\ argv.num_epochs = 0 => (log = <<>> /\ files = {}))
    /\ [][ValidClassificationRun => Remaining' < Remaining]_vars

C9_Witness ==
    /\ ValidClassificationRun
    /\ pc = "done"
    /\ argv.num_epochs = 2 /\ env.ds_len = 1 /\ argv.batch_size = 2
    /\ counter = 2

\* The run is at or past the training loop.
LoopStarted ==
    pc \in {"epoch", "batch", "save", "done"} \cup BodyPcs \cup SavePcs \/ InBody

\* C10: a checkpoint is read at most once, only when model_path is set, only
\* into the model and only before the training loop: from the first statement
\* of the loop on, the reads are the one read of start-up (or none), so no read
\* happens in the loop and none after a file was written.
C10_ReadOnlyAtResume ==
    /\ Len(reads) <= 1
    /\ \A i \in DOMAIN reads : reads[i] = "model"
    /\ reads # <<>> => argv.model_path /\ model # <<>>
    /\ pc \in {"data_loader", "dl", "model", "checkpoint"} => reads = <<>>
    /\ LoopStarted => Len(reads) = (IF argv.model_path THEN 1 ELSE 0)
    /\ files # {} => LoopStarted

C10_Witness ==
    /\ argv.model_path
    /\ reads = <<"model">>
    /\ pc = "done"
    /\ files # {}

====
